---- MODULE Spec2Model ----
(***************************************************************************)
(* A model of the sequence-labelling notebook "Exercise 2.1":              *)
(* SequenceLabeler.train, SequenceLabeler.predict and SimpleSequenceModel, *)
(* together with the ner_util helpers they call (Vocabulary,               *)
(* SequenceBatcher, evaluate_iob, prf).  The helpers' file is not part of  *)
(* the sources, so they are modelled from the specification's text.        *)
(*                                                                         *)
(* Abstractions.  A tensor of scores is kept as one vector of numbers per  *)
(* position; the model's parameters are kept as the table "word id ->      *)
(* label id with the highest score", which is all that a context-free      *)
(* embedding + linear classifier lets a caller observe through argmax.     *)
(* The cross-entropy loss is kept as the mean 0/1 error over the positions *)
(* that contribute to it, an exact rational.  torch's random generator is  *)
(* a small linear congruential generator.                                  *)
(***************************************************************************)
EXTENDS Integers, Sequences, FiniteSets, TLC

\* ------------------------------------------------------------------ bounds

MaxSeed == 1
MaxEpochs == 2
MaxBatchSize == 2
MaxValSentences == 2
MaxPredictSentences == 2
MaxBioLen == 3
MaxWindowLen == 2
MaxWindowBatch == 2
RngMod == 16

\* ------------------------------------------------------------- small helpers

Min(a, b) == IF a < b THEN a ELSE b

Max(a, b) == IF a < b THEN b ELSE a

Range(s) == {s[k] : k \in DOMAIN s}

RECURSIVE SeqMax(_)
SeqMax(s) == IF s = <<>> THEN 0 ELSE Max(Head(s), SeqMax(Tail(s)))

RECURSIVE Concat(_)
Concat(ss) == IF ss = <<>> THEN <<>> ELSE Head(ss) \o Concat(Tail(ss))

Repeat(x, n) == [k \in 1..n |-> x]

SeqsUpTo(S, n) == UNION {[1..k -> S] : k \in 0..n}

RECURSIVE Gcd(_, _)
Gcd(a, b) == IF b = 0 THEN a ELSE Gcd(b, a % b)

\* Exact rationals <<numerator, denominator>> in lowest terms stand for Python floats.
RatNorm(q) == LET g == Gcd(q[1], q[2]) IN IF g = 0 THEN <<0, 1>> ELSE <<q[1] \div g, q[2] \div g>>

RatZero == <<0, 1>>

RatAdd(a, b) == RatNorm(<<a[1] * b[2] + b[1] * a[2], a[2] * b[2]>>)

RatMul(a, b) == RatNorm(<<a[1] * b[1], a[2] * b[2]>>)

\* a / b for b # 0
RatDiv(a, b) == RatNorm(<<a[1] * b[2], a[2] * b[1]>>)

\* ------------------------------------------------------------------- labels

PadToken == "<PAD>"

UnkToken == "<UNK>"

EntityTypes == {"PER", "LOC"}

BioLabels == {"O", "B-PER", "I-PER", "B-LOC", "I-LOC"}

\* label.split('-'): the B/I/O part and the entity type of a label string.
LabelTag(l) ==
    CASE l \in {"B-PER", "B-LOC"} -> "B"
      [] l \in {"I-PER", "I-LOC"} -> "I"
      [] OTHER -> "O"

LabelType(l) ==
    CASE l \in {"B-PER", "I-PER"} -> "PER"
      [] l \in {"B-LOC", "I-LOC"} -> "LOC"
      [] OTHER -> ""

MakeLabel(tag, type) ==
    CASE tag = "B" /\ type = "PER" -> "B-PER"
      [] tag = "I" /\ type = "PER" -> "I-PER"
      [] tag = "B" /\ type = "LOC" -> "B-LOC"
      [] tag = "I" /\ type = "LOC" -> "I-LOC"
      [] OTHER -> "O"

\* --------------------------------------------------------------- Vocabulary

PadIdx == 0

UnkIdx == 1

\* Vocabulary(include_unknown=...) of self.word_voc and of self.label_voc.
WordVocUnknownOff == FALSE

WordVocUnknown == TRUE

LabelVocUnknown == FALSE

RECURSIVE Dedup(_, _)
Dedup(s, seen) ==
    IF s = <<>> THEN <<>>
    ELSE IF Head(s) \in seen THEN Dedup(Tail(s), seen)
    ELSE <<Head(s)>> \o Dedup(Tail(s), seen \cup {Head(s)})

\* Vocabulary(include_unknown).build(sequences): ids are the positions in itos,
\* counted from 0: the pad token, the unknown token when enabled, then the
\* observed tokens in order of first occurrence.
VocBuild(sequences, include_unknown) ==
    [itos |-> <<PadToken>> \o (IF include_unknown THEN <<UnkToken>> ELSE <<>>)
                \o Dedup(Concat(sequences), {PadToken, UnkToken}),
     include_unknown |-> include_unknown]

VocLen(voc) == Len(voc.itos)

\* itos[id] with Python's 0-based index
Itos(voc, id) == voc.itos[id + 1]

VocKnows(voc, token) == \E k \in DOMAIN voc.itos : voc.itos[k] = token

\* the id of one token; -1 stands for the error raised for a token that is
\* absent from a vocabulary without the unknown token.
VocEncodeToken(voc, token) ==
    IF VocKnows(voc, token) THEN (CHOOSE k \in DOMAIN voc.itos : voc.itos[k] = token) - 1
    ELSE IF voc.include_unknown THEN UnkIdx
    ELSE -1

VocEncode(voc, sequences) ==
    [s \in DOMAIN sequences |-> [k \in DOMAIN sequences[s] |-> VocEncodeToken(voc, sequences[s][k])]]

\* encode(sequences) raises: some token has no id.
EncodeFails(voc, sequences) ==
    \E s \in DOMAIN sequences : \E k \in DOMAIN sequences[s] :
        VocEncodeToken(voc, sequences[s][k]) = -1

\* ------------------------------------------------- SequenceBatcher, DataLoader

\* One row of a batch: a leading pad slot, the sequence, right padding to width.
PadRow(seq, width) == <<PadIdx>> \o seq \o Repeat(PadIdx, width - 1 - Len(seq))

\* SequenceBatcher.__call__ on the examples idx (positions in the dataset), in order.
Collate(dataset, idx) ==
    LET width == 1 + SeqMax([k \in DOMAIN idx |-> Len(dataset.words[idx[k]])])
    IN [words |-> [k \in DOMAIN idx |-> PadRow(dataset.words[idx[k]], width)],
        labels |-> [k \in DOMAIN idx |-> PadRow(dataset.labels[idx[k]], width)],
        idx |-> idx]

\* DataLoader's batch sampler: consecutive groups of batch_size positions of order,
\* the last one possibly smaller.
RECURSIVE Chunked(_, _)
Chunked(order, size) ==
    IF order = <<>> THEN <<>>
    ELSE LET n == Min(size, Len(order))
         IN <<SubSeq(order, 1, n)>> \o Chunked(SubSeq(order, n + 1, Len(order)), size)

Identity(n) == [k \in 1..n |-> k]

\* ------------------------------------------------------- torch's generator

\* One draw of the default generator: the state that follows r.
RngNext(r) == (5 * r + 3) % RngMod

RECURSIVE RngIter(_, _)
RngIter(r, k) == IF k = 0 THEN r ELSE RngIter(RngNext(r), k - 1)

ManualSeedUnseeded(seed, r) == r

\* torch.manual_seed(p.random_seed): the generator's state after seeding does
\* not depend on its state r before.
ManualSeed(seed, r) == seed % RngMod

\* RandomSampler: the permutation of 1..n that the draw r selects.
RECURSIVE PermOf(_, _)
PermOf(r, S) ==
    IF S = {} THEN <<>>
    ELSE LET n == Cardinality(S)
             x == CHOOSE y \in S : Cardinality({z \in S : z < y}) = r % n
         IN <<x>> \o PermOf(r \div n, S \ {x})

\* ------------------------------------------------------ SimpleSequenceModel

\* nn.Embedding / nn.Linear initialisation: one draw per embedding row.
InitModel(r, n_words, n_labels) == [w \in 0..(n_words - 1) |-> RngIter(r, w + 1) % n_labels]

\* The scores of one position: a vector over the label ids 0..n_labels-1 (kept
\* 1-based), highest at the label the parameters prefer for the word.
ScoreVec(label, n_labels) == [j \in 1..n_labels |-> IF j - 1 = label THEN 1 ELSE 0]

\* SimpleSequenceModel.forward: shape (n_sentences, n_words, n_labels); each
\* position's scores depend on the word at that position only.
Forward(table, Xwords, n_labels) ==
    [r \in DOMAIN Xwords |-> [c \in DOMAIN Xwords[r] |-> ScoreVec(table[Xwords[r][c]], n_labels)]]

\* argmax over the last dimension: the first label id with the highest score.
ArgMaxVec(v) ==
    (CHOOSE j \in DOMAIN v : (\A k \in DOMAIN v : v[k] <= v[j]) /\ (\A k \in DOMAIN v : k < j => v[k] < v[j])) - 1

ArgMax2(scores) == [r \in DOMAIN scores |-> [c \in DOMAIN scores[r] |-> ArgMaxVec(scores[r][c])]]

\* tensor.view(-1, ...): the rows one after the other.
Flatten(t) == Concat(t)

\* ------------------------------------------------------- CrossEntropyLoss

IgnoreIndexDefault == 0 - 100

\* ignore_index = self.label_voc.get_pad_idx()
IgnoreIndex == PadIdx

\* The flattened positions whose target is not ignore_index: those the loss is
\* averaged over.
LossPositions(targets, ignore_index) == {k \in DOMAIN targets : targets[k] # ignore_index}

\* loss_func(scores.view(-1, n_labels), Ybatch.view(-1)): the mean error over
\* the contributing positions; <<0, 0>> stands for nan (no position contributes).
LossFunc(flat_scores, targets, ignore_index) ==
    LET pos == LossPositions(targets, ignore_index)
        wrong == {k \in pos : ArgMaxVec(flat_scores[k]) # targets[k]}
    IN IF pos = {} THEN <<0, 0>> ELSE RatNorm(<<Cardinality(wrong), Cardinality(pos)>>)

\* loss.backward(): for every word at a contributing position, the label the
\* gradient pushes it to (the target at its first contributing position).
Backward(flat_words, targets, ignore_index) ==
    LET pos == LossPositions(targets, ignore_index)
        ws == {flat_words[k] : k \in pos}
    IN [w \in ws |-> targets[CHOOSE k \in pos : flat_words[k] = w /\ \A j \in pos : flat_words[j] = w => k <= j]]

EmptyGrad == [w \in {} |-> 0]

\* optimizer.step(): the parameters moved along the gradient.
OptimizerStep(table, g) == [w \in DOMAIN table |-> IF w \in DOMAIN g THEN g[w] ELSE table[w]]

\* ------------------------------------------------------ BIO chunk evaluator

\* The scan of one label sequence: open is <<>> or <<start, type>> of the chunk
\* being read; positions are 0-based and a chunk is <<start, end, type>> with end
\* exclusive.
RECURSIVE ChunkScan(_, _, _)
ChunkScan(labels, k, open) ==
    IF k > Len(labels)
    THEN IF open = <<>> THEN {} ELSE {<<open[1], Len(labels), open[2]>>}
    ELSE LET tag == LabelTag(labels[k])
             type == LabelType(labels[k])
             continues == open # <<>> /\ tag = "I" /\ type = open[2]
             closed == IF open = <<>> \/ continues THEN {} ELSE {<<open[1], k - 1, open[2]>>}
             next == IF continues THEN open
                     ELSE IF tag \in {"B", "I"} THEN <<k - 1, type>>
                     ELSE <<>>
         IN closed \cup ChunkScan(labels, k + 1, next)

Chunks(labels) == ChunkScan(labels, 1, <<>>)

SerializeAllInside(chunks, n) ==
    [k \in 1..n |->
        IF \E c \in chunks : c[1] <= k - 1 /\ k - 1 < c[2]
        THEN MakeLabel("I", (CHOOSE c \in chunks : c[1] <= k - 1 /\ k - 1 < c[2])[3])
        ELSE "O"]

\* Chunks back to one B/I/O label per token of a sentence of n tokens.
Serialize(chunks, n) ==
    [k \in 1..n |->
        IF \E c \in chunks : c[1] = k - 1 THEN MakeLabel("B", (CHOOSE c \in chunks : c[1] = k - 1)[3])
        ELSE IF \E c \in chunks : c[1] < k - 1 /\ k - 1 < c[2]
             THEN MakeLabel("I", (CHOOSE c \in chunks : c[1] < k - 1 /\ k - 1 < c[2])[3])
        ELSE "O"]

CounterZero == [tp |-> 0, fp |-> 0, fn |-> 0]

EmptyStats == [k \in {} |-> CounterZero]

\* stats[key] of a defaultdict(Counter), read only: a missing key counts 0.
StatsGet(stats, key) == IF key \in DOMAIN stats THEN stats[key] ELSE CounterZero

\* stats[key][tp/fp/fn] += ...; a key appears when something is counted for it.
StatsAdd(stats, key, c) ==
    IF c = CounterZero THEN stats
    ELSE [k \in DOMAIN stats \cup {key} |->
            IF k = key THEN [tp |-> StatsGet(stats, key).tp + c.tp,
                             fp |-> StatsGet(stats, key).fp + c.fp,
                             fn |-> StatsGet(stats, key).fn + c.fn]
            ELSE stats[k]]

OfType(chunks, key) == IF key = "total" THEN chunks ELSE {c \in chunks : c[3] = key}

Overlaps(c, d) == c[3] = d[3] /\ c[1] < d[2] /\ d[1] < c[2]

ChunkCountsPartialCredit(gold_chunks, pred_chunks, key) ==
    [tp |-> Cardinality(OfType({c \in pred_chunks : \E d \in gold_chunks : Overlaps(c, d)}, key)),
     fp |-> Cardinality(OfType({c \in pred_chunks : ~\E d \in gold_chunks : Overlaps(c, d)}, key)),
     fn |-> Cardinality(OfType({d \in gold_chunks : ~\E c \in pred_chunks : Overlaps(c, d)}, key))]

\* The counts of one sentence for one key: predicted chunks found in gold with
\* the same span and type, predicted chunks not found, gold chunks not found.
ChunkCounts(gold_chunks, pred_chunks, key) ==
    [tp |-> Cardinality(OfType(pred_chunks \cap gold_chunks, key)),
     fp |-> Cardinality(OfType(pred_chunks \ gold_chunks, key)),
     fn |-> Cardinality(OfType(gold_chunks \ pred_chunks, key))]

EvalSentence(stats, gold_labels, pred_labels) ==
    LET g == Chunks(gold_labels)
        p == Chunks(pred_labels)
        s1 == StatsAdd(stats, "PER", ChunkCounts(g, p, "PER"))
        s2 == StatsAdd(s1, "LOC", ChunkCounts(g, p, "LOC"))
    IN StatsAdd(s2, "total", ChunkCounts(g, p, "total"))

\* The columns of one batch row that evaluate_iob reads: those holding a word.
RowMaskUnmasked(word_row) == [c \in DOMAIN word_row |-> TRUE]

RowMask(word_row) == [c \in DOMAIN word_row |-> word_row[c] # PadIdx]

RECURSIVE Select(_, _)
Select(s, mask) ==
    IF s = <<>> THEN <<>>
    ELSE (IF Head(mask) THEN <<Head(s)>> ELSE <<>>) \o Select(Tail(s), Tail(mask))

DecodeRow(label_voc, ids) == [k \in DOMAIN ids |-> Itos(label_voc, ids[k])]

\* ner_util.evaluate_iob(words, predicted, gold, label_voc, stats): stats with
\* the counts of every row of the batch added.
RECURSIVE EvaluateIob(_, _, _, _, _)
EvaluateIob(words, predicted, gold, label_voc, stats) ==
    IF words = <<>> THEN stats
    ELSE LET mask == RowMask(Head(words))
             g == DecodeRow(label_voc, Select(Head(gold), mask))
             p == DecodeRow(label_voc, Select(Head(predicted), mask))
         IN EvaluateIob(Tail(words), Tail(predicted), Tail(gold), label_voc, EvalSentence(stats, g, p))

PrfUnguarded(c) ==
    IF c.tp + c.fp = 0 \/ c.tp + c.fn = 0 \/ c.tp = 0
    THEN [err |-> TRUE, p |-> RatZero, r |-> RatZero, f1 |-> RatZero]
    ELSE [err |-> FALSE,
          p |-> RatNorm(<<c.tp, c.tp + c.fp>>),
          r |-> RatNorm(<<c.tp, c.tp + c.fn>>),
          f1 |-> RatDiv(RatMul(<<2, 1>>, RatMul(RatNorm(<<c.tp, c.tp + c.fp>>), RatNorm(<<c.tp, c.tp + c.fn>>))),
                        RatAdd(RatNorm(<<c.tp, c.tp + c.fp>>), RatNorm(<<c.tp, c.tp + c.fn>>)))]

\* ner_util.prf(counter): precision, recall and their harmonic mean, each 0 when
\* its denominator is 0; err tells a division by zero.
Prf(c) ==
    LET p == IF c.tp + c.fp = 0 THEN RatZero ELSE RatNorm(<<c.tp, c.tp + c.fp>>)
        r == IF c.tp + c.fn = 0 THEN RatZero ELSE RatNorm(<<c.tp, c.tp + c.fn>>)
        f1 == IF RatAdd(p, r) = RatZero THEN RatZero
              ELSE RatDiv(RatMul(<<2, 1>>, RatMul(p, r)), RatAdd(p, r))
    IN [err |-> FALSE, p |-> p, r |-> r, f1 |-> f1]

\* ---------------------------------------------------------------- the data

Sentence(words, labels) == [words |-> words, labels |-> labels]

\* The file p.train_file, as read_data returns it.
TrainFile ==
    << Sentence(<<"a", "b", "c">>, <<"B-PER", "I-PER", "O">>),
       Sentence(<<"c", "a">>, <<"O", "B-LOC">>),
       Sentence(<<"a", "b">>, <<"B-LOC", "I-LOC">>) >>

\* Validation sentences: two of the training file, one with a word and one with
\* a label that the training file does not have.
ValPool ==
    { Sentence(<<"a", "b", "c">>, <<"B-PER", "I-PER", "O">>),
      Sentence(<<"c", "a">>, <<"O", "B-LOC">>),
      Sentence(<<"zz">>, <<"I-PER">>),
      Sentence(<<"b">>, <<"B-ORG">>) }

\* The files p.valid_file may be.
ValFiles == SeqsUpTo(ValPool, MaxValSentences)

\* Sentences predict may be given: none to three tokens, one of them a word
\* that the training file does not have.
PredictPool == {<<>>, <<"b">>, <<"a", "zz", "b">>}

\* The arguments predict may be called with.
PredictInputs == SeqsUpTo(PredictPool, MaxPredictSentences)

Words(file) == [k \in DOMAIN file |-> file[k].words]

Labels(file) == [k \in DOMAIN file |-> file[k].labels]

\* ---------------------------------------------------------------- the state

VARIABLES
    params,         \* self.params: random_seed, n_epochs, batch_size, train_file, valid_file
    rng,            \* the state of torch's default generator
    pc,             \* the statement the running call is at; "idle" between calls
    attrs,          \* the attributes set on the SequenceLabeler
    word_voc,       \* self.word_voc
    label_voc,      \* self.label_voc
    model,          \* the parameters of self.model
    training,       \* self.model.training
    i,              \* train: the epoch index
    queue,          \* the batches the loader being iterated has yet to yield
    batch_no,       \* train: the number of the training batch in this epoch
    batch,          \* Xbatch_words, Ybatch
    scores,         \* scores
    loss,           \* loss
    loss_pos,       \* the flattened positions loss was averaged over
    grad,           \* the parameters' .grad
    loss_sum,       \* loss_sum
    history,        \* history
    stats,          \* train: stats
    stats_bound,    \* whether the local name stats is bound
    report,         \* the final report printed: label -> precision, recall, F1
    self_stats,     \* self.stats
    error,          \* the exception the last call ended with, "" for none
    sentences,      \* predict: sentences
    out,            \* predict: out
    log,            \* the steps of the training phase of this epoch, in order
    order,          \* the training batches this call of train has visited
    init_model,     \* the parameters this call of train started from
    last_run,       \* what the last finished call of train produced, if any
    bio_pc,         \* the evaluator on its own: the step it is at
    bio_gold,       \* a gold label sequence
    bio_pred,       \* a predicted label sequence of the same length
    bio_stats,      \* the statistics evaluate_iob gives for them
    bio_chunks,     \* the chunks of bio_gold
    bio_labels,      \* the chunks of bio_gold written back as labels
    win_pc,         \* the window hint on its own: the step it is at
    win_sentences,  \* the encoded sentences of a batch
    win_words,      \* Xbatch_words: the batch the batcher makes of them
    emb,            \* word_embedding.weight: word id -> vector
    word_repr,      \* word_repr
    word_before_repr, \* word_before_repr
    word_after_repr \* word_after_repr

trainVars == <<i, batch_no, loss, loss_pos, grad, loss_sum, history, stats, stats_bound, report,
               self_stats, log, order, init_model, last_run>>

predictVars == <<sentences, out>>

bioVars == <<bio_pc, bio_gold, bio_pred, bio_stats, bio_chunks, bio_labels>>

windowVars == <<win_pc, win_sentences, win_words, emb, word_repr, word_before_repr, word_after_repr>>

mainVars == <<params, rng, pc, attrs, word_voc, label_voc, model, training, queue, batch, scores,
              error, trainVars, predictVars>>

vars == <<mainVars, bioVars, windowVars>>

EmptyBatch == [words |-> <<>>, labels |-> <<>>, idx |-> <<>>]

EmptyVoc == [itos |-> <<>>, include_unknown |-> FALSE]

EmptyHistory == [train_loss |-> <<>>, val_f1 |-> <<>>]

EmptyReport == [k \in {} |-> Prf(CounterZero)]

Seeds == 0..MaxSeed

ParamsSet ==
    [random_seed : Seeds, n_epochs : 0..MaxEpochs, batch_size : 1..MaxBatchSize,
     train_file : {TrainFile}, valid_file : ValFiles]

\* SequenceLabeler(params): only self.params is set.
MainInit ==
    /\ params \in ParamsSet
    /\ rng \in {0, RngMod - 1}
    /\ pc = "idle"
    /\ attrs = {"params"}
    /\ word_voc = EmptyVoc
    /\ label_voc = EmptyVoc
    /\ model = <<>>
    /\ training = TRUE
    /\ i = 0
    /\ queue = <<>>
    /\ batch_no = 0
    /\ batch = EmptyBatch
    /\ scores = <<>>
    /\ loss = RatZero
    /\ loss_pos = {}
    /\ grad = EmptyGrad
    /\ loss_sum = RatZero
    /\ history = EmptyHistory
    /\ stats = EmptyStats
    /\ stats_bound = FALSE
    /\ report = EmptyReport
    /\ self_stats = EmptyStats
    /\ error = ""
    /\ sentences = <<>>
    /\ out = <<>>
    /\ log = <<>>
    /\ order = <<>>
    /\ init_model = <<>>
    /\ last_run = <<>>

BioIdle ==
    /\ bio_pc = "off"
    /\ bio_gold = <<>>
    /\ bio_pred = <<>>
    /\ bio_stats = EmptyStats
    /\ bio_chunks = {}
    /\ bio_labels = <<>>

WindowIdle ==
    /\ win_pc = "off"
    /\ win_sentences = <<>>
    /\ win_words = <<>>
    /\ emb = <<>>
    /\ word_repr = <<>>
    /\ word_before_repr = <<>>
    /\ word_after_repr = <<>>

Init == MainInit /\ BioIdle /\ WindowIdle

\* The datasets train builds from the files with the vocabularies.
TrainDataset ==
    [words |-> VocEncode(word_voc, Words(params.train_file)),
     labels |-> VocEncode(label_voc, Labels(params.train_file))]

ValDataset ==
    [words |-> VocEncode(word_voc, Words(params.valid_file)),
     labels |-> VocEncode(label_voc, Labels(params.valid_file))]

\* predict: Ydummy and the dataset built from sentences.
Ydummy == [s \in DOMAIN sentences |-> Repeat(Itos(label_voc, 0), Len(sentences[s]))]

PredictDataset ==
    [words |-> VocEncode(word_voc, sentences),
     labels |-> VocEncode(label_voc, Ydummy)]

\* len(loader)
LoaderLen(n, size) == (n + size - 1) \div size

\* -------------------------------------------------- SequenceLabeler.train

TrainStepOrderUpdateFirst == <<"forward", "loss", "zero_grad", "step", "backward", "accumulate">>

\* The statements of the body of the training loop, in program order.
TrainStepOrder == <<"forward", "loss", "zero_grad", "backward", "step", "accumulate">>

FirstStep == TrainStepOrder[1]

\* The statement after s; after the last one the loop header is next.
StepAfter(s) ==
    LET k == CHOOSE j \in DOMAIN TrainStepOrder : TrainStepOrder[j] = s
    IN IF k = Len(TrainStepOrder) THEN "train_loop" ELSE TrainStepOrder[k + 1]

\* What a finished call of train is remembered by.
RunRecord(err, st) ==
    [order |-> order, init_model |-> init_model, train_loss |-> history.train_loss,
     val_f1 |-> history.val_f1, stats |-> st, error |-> err]

\* train() up to the epoch loop: seeding, reading the files, the vocabularies,
\* the loaders, the model, the optimizer, the loss function, the history.
\* A call that cannot encode its files ends at the dataset that raises, with the
\* vocabularies and the batcher set and no model built.
TrainSetup ==
    /\ pc = "idle"
    /\ LET seeded == ManualSeed(params.random_seed, rng)
           wv == VocBuild(Words(params.train_file), WordVocUnknown)
           lv == VocBuild(Labels(params.train_file), LabelVocUnknown)
           raises == \/ EncodeFails(wv, Words(params.train_file))
                     \/ EncodeFails(lv, Labels(params.train_file))
                     \/ EncodeFails(wv, Words(params.valid_file))
                     \/ EncodeFails(lv, Labels(params.valid_file))
       IN /\ word_voc' = wv
          /\ label_voc' = lv
          /\ IF raises
             THEN /\ rng' = seeded
                  /\ attrs' = attrs \cup {"word_voc", "label_voc", "char_voc", "batcher"}
                  /\ error' = "EncodeError"
                  /\ pc' = "idle"
                  /\ UNCHANGED <<model, init_model, history, i, stats, stats_bound, grad, order, log>>
             ELSE /\ model' = InitModel(seeded, VocLen(wv), VocLen(lv))
                  /\ init_model' = InitModel(seeded, VocLen(wv), VocLen(lv))
                  /\ rng' = RngIter(seeded, VocLen(wv))
                  /\ attrs' = attrs \cup {"word_voc", "label_voc", "char_voc", "batcher", "model"}
                  /\ history' = EmptyHistory
                  /\ i' = 0
                  /\ stats' = EmptyStats
                  /\ stats_bound' = FALSE
                  /\ grad' = EmptyGrad
                  /\ order' = <<>>
                  /\ log' = <<>>
                  /\ error' = ""
                  /\ pc' = "epoch_head"
    /\ UNCHANGED <<params, training, queue, batch_no, batch, scores, loss, loss_pos, loss_sum,
                   report, self_stats, last_run, predictVars, bioVars, windowVars>>

EpochsToRunOneMore(p) == p.n_epochs + 1

\* len(range(p.n_epochs))
EpochsToRun(p) == p.n_epochs

\* for i in range(p.n_epochs): the start of an epoch (the training loader's
\* iterator draws the shuffled order), or the end of the loop.
EpochHead ==
    /\ pc = "epoch_head"
    /\ IF i < EpochsToRun(params)
       THEN /\ loss_sum' = RatZero
            /\ training' = TRUE
            /\ queue' = Chunked(PermOf(RngNext(rng), 1..Len(params.train_file)), params.batch_size)
            /\ rng' = RngNext(rng)
            /\ batch_no' = 0
            /\ log' = <<>>
            /\ pc' = "train_loop"
       ELSE /\ pc' = "report"
            /\ UNCHANGED <<loss_sum, training, queue, rng, batch_no, log>>
    /\ UNCHANGED <<params, attrs, word_voc, label_voc, model, i, batch, scores, loss, loss_pos, grad,
                   history, stats, stats_bound, report, self_stats, error, order, init_model, last_run, predictVars, bioVars, windowVars>>

\* for Xbatch_words, Ybatch, Xbatch_chars in train_loader
TrainLoop ==
    /\ pc = "train_loop"
    /\ IF queue # <<>>
       THEN /\ batch' = Collate(TrainDataset, Head(queue))
            /\ queue' = Tail(queue)
            /\ batch_no' = batch_no + 1
            /\ order' = Append(order, Head(queue))
            /\ pc' = FirstStep
       ELSE /\ pc' = "epoch_mid"
            /\ UNCHANGED <<batch, queue, batch_no, order>>
    /\ UNCHANGED <<params, rng, attrs, word_voc, label_voc, model, training, i, scores, loss, loss_pos,
                   grad, loss_sum, history, stats, stats_bound, report, self_stats, error, log,
                   init_model, last_run, predictVars, bioVars, windowVars>>

\* scores = self.model(Xbatch_words)
TrainForward ==
    /\ pc = "forward"
    /\ scores' = Forward(model, batch.words, VocLen(label_voc))
    /\ log' = Append(log, <<batch_no, "forward">>)
    /\ pc' = StepAfter("forward")
    /\ UNCHANGED <<params, rng, attrs, word_voc, label_voc, model, training, i, queue, batch_no, batch,
                   loss, loss_pos, grad, loss_sum, history, stats, stats_bound, report, self_stats,
                   error, order, init_model, last_run, predictVars, bioVars, windowVars>>

\* loss = loss_func(scores.view(-1, len(self.label_voc)), Ybatch.view(-1))
TrainLoss ==
    /\ pc = "loss"
    /\ loss' = LossFunc(Flatten(scores), Flatten(batch.labels), IgnoreIndex)
    /\ loss_pos' = LossPositions(Flatten(batch.labels), IgnoreIndex)
    /\ log' = Append(log, <<batch_no, "loss">>)
    /\ pc' = StepAfter("loss")
    /\ UNCHANGED <<params, rng, attrs, word_voc, label_voc, model, training, i, queue, batch_no, batch,
                   scores, grad, loss_sum, history, stats, stats_bound, report, self_stats,
                   error, order, init_model, last_run, predictVars, bioVars, windowVars>>

\* optimizer.zero_grad()
TrainZeroGrad ==
    /\ pc = "zero_grad"
    /\ grad' = EmptyGrad
    /\ log' = Append(log, <<batch_no, "zero_grad">>)
    /\ pc' = StepAfter("zero_grad")
    /\ UNCHANGED <<params, rng, attrs, word_voc, label_voc, model, training, i, queue, batch_no, batch,
                   scores, loss, loss_pos, loss_sum, history, stats, stats_bound, report, self_stats,
                   error, order, init_model, last_run, predictVars, bioVars, windowVars>>

\* loss.backward(): the gradient of this batch's loss is added to .grad
TrainBackward ==
    /\ pc = "backward"
    /\ LET g == Backward(Flatten(batch.words), Flatten(batch.labels), IgnoreIndex)
       IN grad' = [w \in DOMAIN grad \cup DOMAIN g |-> IF w \in DOMAIN g THEN g[w] ELSE grad[w]]
    /\ log' = Append(log, <<batch_no, "backward">>)
    /\ pc' = StepAfter("backward")
    /\ UNCHANGED <<params, rng, attrs, word_voc, label_voc, model, training, i, queue, batch_no, batch,
                   scores, loss, loss_pos, loss_sum, history, stats, stats_bound, report, self_stats,
                   error, order, init_model, last_run, predictVars, bioVars, windowVars>>

\* optimizer.step()
TrainStep ==
    /\ pc = "step"
    /\ model' = OptimizerStep(model, grad)
    /\ log' = Append(log, <<batch_no, "step">>)
    /\ pc' = StepAfter("step")
    /\ UNCHANGED <<params, rng, attrs, word_voc, label_voc, training, i, queue, batch_no, batch,
                   scores, loss, loss_pos, grad, loss_sum, history, stats, stats_bound, report,
                   self_stats, error, order, init_model, last_run, predictVars, bioVars, windowVars>>

\* loss_sum += loss.item()
TrainAccumulate ==
    /\ pc = "accumulate"
    /\ loss_sum' = IF loss[2] = 0 \/ loss_sum[2] = 0 THEN <<0, 0>> ELSE RatAdd(loss_sum, loss)
    /\ log' = Append(log, <<batch_no, "accumulate">>)
    /\ pc' = StepAfter("accumulate")
    /\ UNCHANGED <<params, rng, attrs, word_voc, label_voc, model, training, i, queue, batch_no, batch,
                   scores, loss, loss_pos, grad, history, stats, stats_bound, report, self_stats,
                   error, order, init_model, last_run, predictVars, bioVars, windowVars>>

NewStatsCarriedOver == stats

\* stats = defaultdict(Counter)
NewStats == EmptyStats

\* After the training loop of an epoch: the epoch's training loss, fresh
\* statistics, the model in evaluation mode, the validation loader's iterator.
EpochMid ==
    /\ pc = "epoch_mid"
    /\ LET n == LoaderLen(Len(params.train_file), params.batch_size)
           train_loss == IF loss_sum[2] = 0 THEN <<0, 0>> ELSE RatDiv(loss_sum, <<n, 1>>)
       IN history' = [history EXCEPT !.train_loss = Append(@, train_loss)]
    /\ stats' = NewStats
    /\ stats_bound' = TRUE
    /\ training' = FALSE
    /\ queue' = Chunked(Identity(Len(params.valid_file)), params.batch_size)
    /\ pc' = "val_loop"
    /\ UNCHANGED <<params, rng, attrs, word_voc, label_voc, model, i, batch_no, batch, scores, loss,
                   loss_pos, grad, loss_sum, report, self_stats, error, log, order, init_model, last_run, predictVars, bioVars, windowVars>>

InferenceParamsStepping(table, b) ==
    OptimizerStep(table, Backward(Flatten(b.words), Flatten(b.labels), IgnoreIndex))

\* The parameters after the body of an inference loop (model.eval(), under
\* torch.no_grad(), no optimizer call) has run on batch b.
InferenceParams(table, b) == table

\* One pass of the validation loop's body, under torch.no_grad().
ValBatch ==
    /\ pc = "val_loop"
    /\ queue # <<>>
    /\ LET b == Collate(ValDataset, Head(queue))
           sc == Forward(model, b.words, VocLen(label_voc))
           predicted == ArgMax2(sc)
       IN /\ batch' = b
          /\ scores' = sc
          /\ stats' = EvaluateIob(b.words, predicted, b.labels, label_voc, stats)
          /\ model' = InferenceParams(model, b)
    /\ queue' = Tail(queue)
    /\ UNCHANGED <<params, rng, pc, attrs, word_voc, label_voc, training, i, batch_no, loss,
                   loss_pos, grad, loss_sum, history, stats_bound, report, self_stats, error, log,
                   order, init_model, last_run, predictVars, bioVars, windowVars>>

\* stats['total'] of a defaultdict: the key exists afterwards.
StatsTouch(st, key) == [k \in DOMAIN st \cup {key} |-> StatsGet(st, k)]


\* The end of the validation loop: the epoch's F1 from stats['total'], the
\* history, and on to the next epoch.
ValEnd ==
    /\ pc = "val_loop"
    /\ queue = <<>>
    /\ LET st == StatsTouch(stats, "total")
           res == Prf(st["total"])
       IN /\ stats' = st
          /\ IF res.err
             THEN /\ error' = "ZeroDivisionError"
                  /\ last_run' = <<RunRecord("ZeroDivisionError", st)>>
                  /\ pc' = "idle"
                  /\ UNCHANGED <<history, i>>
             ELSE /\ history' = [history EXCEPT !.val_f1 = Append(@, res.f1)]
                  /\ i' = i + 1
                  /\ pc' = "epoch_head"
                  /\ UNCHANGED <<error, last_run>>
    /\ UNCHANGED <<params, rng, attrs, word_voc, label_voc, model, training, queue, batch_no, batch,
                   scores, loss, loss_pos, grad, loss_sum, stats_bound, report, self_stats, log,
                   order, init_model, predictVars, bioVars, windowVars>>

\* After the epoch loop: the final report from stats, self.stats = stats.  The
\* name stats is bound only by an epoch's validation phase.
Report ==
    /\ pc = "report"
    /\ pc' = "idle"
    /\ IF ~stats_bound
       THEN /\ error' = "UnboundLocalError"
            /\ last_run' = <<RunRecord("UnboundLocalError", EmptyStats)>>
            /\ UNCHANGED <<stats, report, self_stats, attrs>>
       ELSE LET st == StatsTouch(stats, "total")
                rep == [k \in DOMAIN st |-> Prf(st[k])]
            IN /\ stats' = st
               /\ IF \E k \in DOMAIN rep : rep[k].err
                  THEN /\ error' = "ZeroDivisionError"
                       /\ last_run' = <<RunRecord("ZeroDivisionError", st)>>
                       /\ UNCHANGED <<report, self_stats, attrs>>
                  ELSE /\ report' = rep
                       /\ self_stats' = st
                       /\ attrs' = attrs \cup {"stats"}
                       /\ last_run' = <<RunRecord("", st)>>
                       /\ UNCHANGED error
    /\ UNCHANGED <<params, rng, word_voc, label_voc, model, training, i, queue, batch_no, batch,
                   scores, loss, loss_pos, grad, loss_sum, history, stats_bound, log, order,
                   init_model, predictVars, bioVars, windowVars>>

\* ------------------------------------------------ SequenceLabeler.predict

PredictRowNoShift(voc, tokens, pred_sen) ==
    [j \in 1..Min(Len(tokens), Len(pred_sen)) |-> Itos(voc, pred_sen[j])]

PredictRowUnzipped(voc, tokens, pred_sen) ==
    [j \in 1..(Len(pred_sen) - 1) |-> Itos(voc, pred_sen[j + 1])]

\* [self.label_voc.itos[pred_id] for _, pred_id in zip(tokens, pred_sen[1:])]
PredictRow(voc, tokens, pred_sen) ==
    [j \in 1..Min(Len(tokens), Len(pred_sen) - 1) |-> Itos(voc, pred_sen[j + 1])]

\* for pred_sen in predicted: tokens = sentences[len(out)]; out.append(...)
RECURSIVE DecodeRows(_, _, _, _)
DecodeRows(voc, sens, acc, rows) ==
    IF rows = <<>> THEN acc
    ELSE DecodeRows(voc, sens, Append(acc, PredictRow(voc, sens[Len(acc) + 1], Head(rows))), Tail(rows))

\* predict(sentences) up to its loop.  self.model exists once train has built it.
\* A sentence that cannot be encoded ends the call at the dataset.
PredictStart ==
    /\ pc = "idle"
    /\ "model" \in attrs
    /\ \E sens \in PredictInputs :
          IF EncodeFails(word_voc, sens)
          THEN /\ error' = "EncodeError"
               /\ pc' = "idle"
               /\ UNCHANGED <<sentences, queue, out, training>>
          ELSE /\ sentences' = sens
               /\ queue' = Chunked(Identity(Len(sens)), params.batch_size)
               /\ out' = <<>>
               /\ training' = FALSE
               /\ error' = ""
               /\ pc' = "predict_loop"
    /\ UNCHANGED <<params, rng, attrs, word_voc, label_voc, model, batch, scores, trainVars, bioVars, windowVars>>

\* One pass of predict's loop body.
PredictBatch ==
    /\ pc = "predict_loop"
    /\ queue # <<>>
    /\ LET b == Collate(PredictDataset, Head(queue))
           sc == Forward(model, b.words, VocLen(label_voc))
           predicted == ArgMax2(sc)
       IN /\ batch' = b
          /\ scores' = sc
          /\ out' = DecodeRows(label_voc, sentences, out, predicted)
          /\ model' = InferenceParams(model, b)
    /\ queue' = Tail(queue)
    /\ UNCHANGED <<params, rng, pc, attrs, word_voc, label_voc, training, error, sentences, trainVars, bioVars, windowVars>>

\* return out: the loop is over, the caller gets out and the call's locals go.
PredictReturn ==
    /\ pc = "predict_loop"
    /\ queue = <<>>
    /\ sentences' = <<>>
    /\ out' = <<>>
    /\ batch' = EmptyBatch
    /\ scores' = <<>>
    /\ pc' = "idle"
    /\ UNCHANGED <<params, rng, attrs, word_voc, label_voc, model, training, queue, error, trainVars, bioVars, windowVars>>

Next ==
    \/ TrainSetup
    \/ EpochHead
    \/ TrainLoop
    \/ TrainForward
    \/ TrainLoss
    \/ TrainZeroGrad
    \/ TrainBackward
    \/ TrainStep
    \/ TrainAccumulate
    \/ EpochMid
    \/ ValBatch
    \/ ValEnd
    \/ Report
    \/ PredictStart
    \/ PredictBatch
    \/ PredictReturn

Spec == Init /\ [][Next]_vars

\* ------------------------------------------- the chunk evaluator on its own

BioLabelVoc == VocBuild(<< <<"O", "B-PER", "I-PER", "B-LOC", "I-LOC">> >>, FALSE)

DefaultParams ==
    [random_seed |-> 0, n_epochs |-> 0, batch_size |-> 1, train_file |-> TrainFile, valid_file |-> <<>>]

\* Any gold sequence; the predicted sequence is chosen when it is evaluated.
InitBio ==
    /\ MainInit
    /\ params = DefaultParams
    /\ rng = 0
    /\ WindowIdle
    /\ bio_pc = "input"
    /\ bio_gold \in SeqsUpTo(BioLabels, MaxBioLen)
    /\ bio_pred = <<>>
    /\ bio_stats = EmptyStats
    /\ bio_chunks = {}
    /\ bio_labels = <<>>

BioEncode(labels) == [k \in DOMAIN labels |-> VocEncodeToken(BioLabelVoc, labels[k])]

\* evaluate_iob on the one-sentence batch of bio_gold and any predicted sequence
\* of the same length, from empty statistics.
BioEvaluate ==
    /\ bio_pc = "input"
    /\ \E pred \in [DOMAIN bio_gold -> BioLabels] :
          LET n == Len(bio_gold)
              words == << PadRow(Repeat(UnkIdx, n), n + 1) >>
              gold == << PadRow(BioEncode(bio_gold), n + 1) >>
              predicted == << PadRow(BioEncode(pred), n + 1) >>
          IN /\ bio_pred' = pred
             /\ bio_stats' = EvaluateIob(words, predicted, gold, BioLabelVoc, EmptyStats)
    /\ bio_pc' = "evaluated"
    /\ UNCHANGED <<mainVars, windowVars, bio_gold, bio_chunks, bio_labels>>

\* The chunks of bio_gold, and the chunks written back as labels.
BioRoundTrip ==
    /\ bio_pc = "input"
    /\ bio_chunks' = Chunks(bio_gold)
    /\ bio_labels' = Serialize(Chunks(bio_gold), Len(bio_gold))
    /\ bio_pc' = "roundtrip"
    /\ UNCHANGED <<mainVars, windowVars, bio_gold, bio_pred, bio_stats>>

NextBio ==
    \/ BioEvaluate
    \/ BioRoundTrip

SpecBio == InitBio /\ [][NextBio]_vars

\* ------------------------------------------- the window hint on its own

\* torch.zeros(..., emb_dim): the zero vector of an embedding's size.
ZeroVec == <<0, 0>>

\* The rows an embedding table may hold; nothing keeps a row away from zero.
EmbValues == {<<0, 0>>, <<1, 0>>, <<0, 1>>}

\* The ids of the words of a sentence: the unknown word and one known word.
WindowWordIds == {UnkIdx, UnkIdx + 1}

\* Any batch of encoded sentences, as the batcher lays it out, and any
\* embedding table over the pad id and the word ids.
InitWindow ==
    /\ MainInit
    /\ params = DefaultParams
    /\ rng = 0
    /\ BioIdle
    /\ win_pc = "input"
    /\ win_sentences \in SeqsUpTo(SeqsUpTo(WindowWordIds, MaxWindowLen), MaxWindowBatch) \ {<<>>}
    /\ win_words = Collate([words |-> win_sentences, labels |-> win_sentences],
                           Identity(Len(win_sentences))).words
    /\ emb \in [{PadIdx} \cup WindowWordIds -> EmbValues]
    /\ word_repr = <<>>
    /\ word_before_repr = <<>>
    /\ word_after_repr = <<>>

\* word_repr = self.word_embedding(words): shape (n_sentences, n_words, emb_dim)
WordEmbedding(table, words) ==
    [r \in DOMAIN words |-> [c \in DOMAIN words[r] |-> table[words[r][c]]]]

WordBeforeReprShiftedLeft(repr) ==
    [r \in DOMAIN repr |-> SubSeq(repr[r], 2, Len(repr[r])) \o <<ZeroVec>>]

\* word_before_repr = torch.cat([zero_pad, word_repr[:,:-1,:]], dim=1)
WordBeforeRepr(repr) ==
    [r \in DOMAIN repr |-> <<ZeroVec>> \o SubSeq(repr[r], 1, Len(repr[r]) - 1)]

\* word_after_repr = torch.cat([word_repr[:,1:,:], zero_pad], dim=1)
WordAfterRepr(repr) ==
    [r \in DOMAIN repr |-> SubSeq(repr[r], 2, Len(repr[r])) \o <<ZeroVec>>]

WindowEmbed ==
    /\ win_pc = "input"
    /\ word_repr' = WordEmbedding(emb, win_words)
    /\ win_pc' = "embedded"
    /\ UNCHANGED <<mainVars, bioVars, win_sentences, win_words, emb, word_before_repr, word_after_repr>>

WindowShift ==
    /\ win_pc = "embedded"
    /\ word_before_repr' = WordBeforeRepr(word_repr)
    /\ word_after_repr' = WordAfterRepr(word_repr)
    /\ win_pc' = "shifted"
    /\ UNCHANGED <<mainVars, bioVars, win_sentences, win_words, emb, word_repr>>

NextWindow ==
    \/ WindowEmbed
    \/ WindowShift

SpecWindow == InitWindow /\ [][NextWindow]_vars

\* ------------------------------------------------------------- properties

Last(s) == s[Len(s)]

RECURSIVE SumLen(_)
SumLen(ss) == IF ss = <<>> THEN 0 ELSE Len(Head(ss)) + SumLen(Tail(ss))

\* C1: in predict, out always holds one label sequence for each sentence of the
\* batches read so far, the k-th as long as the k-th input sentence; so when
\* the loop is over and out is returned, out has as many sequences as there are
\* sentences and each has the length of its sentence.
C1_PredictShape ==
    pc = "predict_loop" =>
        /\ Len(out) + SumLen(queue) = Len(sentences)
        /\ \A k \in DOMAIN out : Len(out[k]) = Len(sentences[k])

C1_Witness ==
    /\ pc = "predict_loop"
    /\ queue = <<>>
    /\ params.batch_size = 2
    /\ Len(sentences) = 2
    /\ Len(out) = 2
    /\ Len(sentences[1]) = 3
    /\ Len(sentences[2]) = 1

\* A chunk stated directly: <<s, e, t>> is a chunk of labels when position s
\* (0-based) holds B-t, or I-t not preceded by B-t or I-t; the positions after
\* it up to e (exclusive) hold I-t; and position e does not hold I-t.
IsChunk(labels, s, e, t) ==
    /\ 0 <= s /\ s < e /\ e <= Len(labels)
    /\ LabelType(labels[s + 1]) = t
    /\ \/ LabelTag(labels[s + 1]) = "B"
       \/ /\ LabelTag(labels[s + 1]) = "I"
          /\ (s = 0 \/ LabelType(labels[s]) # t)
    /\ \A k \in (s + 2)..e : labels[k] = MakeLabel("I", t)
    /\ (e = Len(labels) \/ labels[e + 1] # MakeLabel("I", t))

ChunkSet(labels) ==
    LET n == Len(labels)
        spans == UNION {{<<s, e>> : e \in (s + 1)..n} : s \in 0..(n - 1)}
    IN {<<c[1][1], c[1][2], c[2]>> : c \in {d \in spans \X EntityTypes : IsChunk(labels, d[1][1], d[1][2], d[2])}}

KeyOf(c, key) == key = "total" \/ c[3] = key

\* C2: for every gold and predicted sequence of the same length and for every
\* entity type and the total, the evaluator's true positives are the predicted
\* chunks for which gold has a chunk with the same start, end and type, its
\* false positives all other predicted chunks and its false negatives the gold
\* chunks without such a match; gold [B-PER, I-PER, O] against predicted
\* [B-PER, O, O] gives TP=0, FP=1, FN=1, and equal sequences give FP=0, FN=0
\* and TP the number of chunks.
C2_ExactMatchCounts ==
    bio_pc = "evaluated" =>
        \E g \in {ChunkSet(bio_gold)} : \E p \in {ChunkSet(bio_pred)} :
           /\ \A key \in EntityTypes \cup {"total"} :
                /\ StatsGet(bio_stats, key).tp = Cardinality({c \in p : KeyOf(c, key) /\ c \in g})
                /\ StatsGet(bio_stats, key).fp = Cardinality({c \in p : KeyOf(c, key) /\ c \notin g})
                /\ StatsGet(bio_stats, key).fn = Cardinality({c \in g : KeyOf(c, key) /\ c \notin p})
           /\ (bio_gold = <<"B-PER", "I-PER", "O">> /\ bio_pred = <<"B-PER", "O", "O">>)
                => StatsGet(bio_stats, "total") = [tp |-> 0, fp |-> 1, fn |-> 1]
           /\ bio_gold = bio_pred
                => StatsGet(bio_stats, "total") = [tp |-> Cardinality(g), fp |-> 0, fn |-> 0]

C2_Witness ==
    /\ bio_pc = "evaluated"
    /\ bio_gold = <<"B-PER", "I-PER", "O">>
    /\ bio_pred = <<"B-PER", "O", "O">>
    /\ bio_stats["total"] = [tp |-> 0, fp |-> 1, fn |-> 1]
    /\ bio_stats["PER"] = [tp |-> 0, fp |-> 1, fn |-> 1]

\* What prf must give for the counts c.
PrfAgrees(res, c) ==
    /\ ~res.err
    /\ (c.tp + c.fp = 0 => res.p = RatZero)
    /\ (c.tp + c.fn = 0 => res.r = RatZero)
    /\ (RatAdd(res.p, res.r) = RatZero => res.f1 = RatZero)
    /\ (c.tp + c.fp > 0 => res.p[1] * (c.tp + c.fp) = c.tp * res.p[2])
    /\ (c.tp + c.fn > 0 => res.r[1] * (c.tp + c.fn) = c.tp * res.r[2])

\* C3: no call of train ends in a division by zero; every line of the final
\* report is the precision, recall and F1 of its counts with precision 0 when
\* TP+FP = 0, recall 0 when TP+FN = 0 and F1 0 when precision + recall = 0, and
\* so is every epoch's F1 in the history.
C3_PrfTotal ==
    /\ error # "ZeroDivisionError"
    /\ \A k \in DOMAIN report : PrfAgrees(report[k], self_stats[k])
    /\ (pc = "epoch_head" /\ i > 0) =>
          /\ PrfAgrees(Prf(stats["total"]), stats["total"])
          /\ Last(history.val_f1) = Prf(stats["total"]).f1
          /\ (stats["total"].tp = 0 => Last(history.val_f1) = RatZero)

C3_Witness ==
    /\ pc = "idle"
    /\ "stats" \in attrs
    /\ error = ""
    /\ self_stats["total"] = CounterZero
    /\ report["total"].p = RatZero
    /\ report["total"].r = RatZero
    /\ Last(history.val_f1) = RatZero

\* The labels with every I- label that begins a chunk written as B-.
Canonical(labels) ==
    [k \in DOMAIN labels |->
        IF LabelTag(labels[k]) = "I" /\ (k = 1 \/ LabelType(labels[k - 1]) # LabelType(labels[k]))
        THEN MakeLabel("B", LabelType(labels[k]))
        ELSE labels[k]]

PredictedAlone(words) ==
    LET ids == [k \in DOMAIN words |-> VocEncodeToken(word_voc, words[k])]
    IN [k \in DOMAIN words |-> Itos(label_voc, ArgMaxVec(ScoreVec(model[ids[k]], VocLen(label_voc))))]

\* The statistics of the first n sentences of a file, each evaluated on its own.
RECURSIVE AloneStats(_, _)
AloneStats(file, n) ==
    IF n = 0 THEN EmptyStats
    ELSE EvalSentence(AloneStats(file, n - 1), file[n].labels, PredictedAlone(file[n].words))

\* C5: during an epoch's validation the statistics are, after every batch, what
\* evaluating each sentence read so far on its own and without padding gives,
\* whatever the model predicts at the padded positions of the batches.
C5_PaddingNotCounted ==
    pc = "val_loop" =>
        stats = AloneStats(params.valid_file, Len(params.valid_file) - SumLen(queue))

C5_Witness ==
    /\ pc = "val_loop"
    /\ queue = <<>>
    /\ Len(batch.idx) = 2
    /\ Len(params.valid_file[1].words) # Len(params.valid_file[2].words)
    /\ Itos(label_voc, model[PadIdx]) \in {"B-PER", "I-PER"}
    /\ "total" \in DOMAIN stats

\* The flattened positions of the current training batch that hold a token of a
\* sentence: row r, columns 1..len(sentence r), after the leading pad slot.
TokenPositions ==
    LET width == Len(batch.words[1])
    IN UNION {{(r - 1) * width + c + 1 : c \in 1..Len(params.train_file[batch.idx[r]].words)} :
                r \in DOMAIN batch.idx}

AfterLoss == pc \in {"zero_grad", "backward", "step", "accumulate"}

\* C6: once the loss of a training batch is computed, the positions it was
\* averaged over are exactly the positions that hold a token of a sentence:
\* neither the leading pad slot nor the right padding of a shorter sentence is
\* among them, and every token is.
C6_LossMask ==
    (AfterLoss /\ Len(log) > 0 /\ \E k \in DOMAIN log : log[k] = <<batch_no, "loss">>) =>
        /\ loss_pos = TokenPositions
        /\ loss_pos = {k \in DOMAIN Flatten(batch.labels) : Flatten(batch.labels)[k] # PadIdx}
        /\ \A r \in DOMAIN batch.idx : (r - 1) * Len(batch.words[1]) + 1 \notin loss_pos

C6_Witness ==
    /\ pc = "zero_grad"
    /\ Len(batch.idx) = 2
    /\ Len(params.train_file[batch.idx[1]].words) # Len(params.train_file[batch.idx[2]].words)
    /\ loss_pos = TokenPositions
    /\ Cardinality(loss_pos) < Len(Flatten(batch.labels)) - 2

InferencePhase(at) == at \in {"val_loop", "predict_loop"}

\* C7: a step that enters, runs or leaves the validation phase of an epoch or a
\* call of predict leaves the parameters as they are; the parameters of a model
\* change only in the optimizer's update step (and train builds a new model when
\* it is called).
C7_ParamsFrame ==
    [][/\ (InferencePhase(pc) \/ InferencePhase(pc')) => model' = model
       /\ model' # model => pc \in {"step", "idle"}]_vars

C7_Witness ==
    /\ pc = "val_loop"
    /\ queue = <<>>
    /\ Len(batch.idx) > 0
    /\ model # InferenceParamsStepping(model, batch)

CoreSteps == <<"forward", "loss", "backward", "step">>

IsCore(e) == e[2] \in Range(CoreSteps)

\* C8: the forward pass, the loss, the gradient and the update of the training
\* batches of an epoch happen in this order, once each per batch, batch after
\* batch; when the training phase is over every batch has had all four.
C8_StepOrder ==
    LET core == SelectSeq(log, IsCore)
    IN /\ \A k \in DOMAIN core : core[k] = <<((k - 1) \div 4) + 1, CoreSteps[((k - 1) % 4) + 1]>>
       /\ pc = "train_loop" => Len(core) = 4 * batch_no
       /\ pc = "epoch_mid" => Len(core) = 4 * LoaderLen(Len(params.train_file), params.batch_size)

C8_Witness ==
    /\ pc = "epoch_mid"
    /\ batch_no >= 2
    /\ SelectSeq(log, IsCore) =
         << <<1, "forward">>, <<1, "loss">>, <<1, "backward">>, <<1, "step">>,
            <<2, "forward">>, <<2, "loss">>, <<2, "backward">>, <<2, "step">> >>

\* The statistics of one pass over the validation loader with the parameters
\* as they are now.
RECURSIVE OnePass(_, _)
OnePass(batches, acc) ==
    IF batches = <<>> THEN acc
    ELSE LET b == Collate(ValDataset, Head(batches))
         IN OnePass(Tail(batches),
                    EvaluateIob(b.words, ArgMax2(Forward(model, b.words, VocLen(label_voc))), b.labels,
                                label_voc, acc))

ValBatches == Chunked(Identity(Len(params.valid_file)), params.batch_size)

TrainFinished == pc = "idle" /\ last_run # <<>> /\ last_run[1].error = ""

\* C9: when train has finished, self.stats and the final report hold the counts
\* of exactly one pass over the validation set with the final parameters, and
\* the last F1 of the history is the F1 of these counts; at the end of every
\* epoch the statistics are those of one pass.
C9_StatsOfOnePass ==
    /\ TrainFinished =>
          /\ self_stats = StatsTouch(OnePass(ValBatches, EmptyStats), "total")
          /\ Last(history.val_f1) = Prf(self_stats["total"]).f1
          /\ DOMAIN report = DOMAIN self_stats
    /\ (pc = "val_loop" /\ queue = <<>>) => stats = OnePass(ValBatches, EmptyStats)

C9_Witness ==
    /\ TrainFinished
    /\ params.n_epochs = 2
    /\ Len(history.val_f1) = 2
    /\ self_stats["total"].tp > 0
    /\ self_stats["total"].fp > 0

InTrain == pc \notin {"idle", "predict_loop"}

\* What a call of train that has reached its final report is about to record.
ReportRecord ==
    IF ~stats_bound THEN RunRecord("UnboundLocalError", EmptyStats)
    ELSE LET st == StatsTouch(stats, "total")
         IN RunRecord(IF \E k \in DOMAIN st : Prf(st[k]).err THEN "ZeroDivisionError" ELSE "", st)

TokensOf(sequences) == Range(Concat(sequences))

\* No two ids of voc hold the same token.
IdsUnique(voc) == \A a, b \in DOMAIN voc.itos : voc.itos[a] = voc.itos[b] => a = b

\* row holds tokens from its column 1 on, each as an id of voc: a token of known
\* as the id that itos maps back to it, any other token as the unknown id.
EncodedRow(voc, known, row, tokens) ==
    \A j \in DOMAIN tokens :
        /\ row[j + 1] \in 0..(VocLen(voc) - 1)
        /\ tokens[j] \in known => Itos(voc, row[j + 1]) = tokens[j]
        /\ tokens[j] \notin known =>
              /\ voc.include_unknown
              /\ row[j + 1] = UnkIdx
              /\ Itos(voc, UnkIdx) = UnkToken

\* A validation batch is in batch: the validation loop has taken one.
ValBatchTaken ==
    pc = "val_loop" /\ Len(queue) < LoaderLen(Len(params.valid_file), params.batch_size)

\* C11: every word of a training, validation or prediction batch is encoded as
\* an id in [0, size) of the word vocabulary, a word of the training file as the
\* id that maps back to it and any other word as the unknown id, and every label
\* of a batch as the id that maps back to it; ids are unique; and a call of
\* train ends in an encoding error, with no model built, exactly when the
\* validation file has a label that the training file does not have (the label
\* vocabulary has no unknown id).
C11_EncodeUnknown ==
    LET known_words == TokensOf(Words(params.train_file))
        known_labels == TokensOf(Labels(params.train_file))
        unseen_label == \E l \in TokensOf(Labels(params.valid_file)) : l \notin known_labels
        FromFile(file) ==
            \A r \in DOMAIN batch.idx :
                /\ EncodedRow(word_voc, known_words, batch.words[r], file[batch.idx[r]].words)
                /\ EncodedRow(label_voc, known_labels, batch.labels[r], file[batch.idx[r]].labels)
    IN /\ "word_voc" \in attrs => IdsUnique(word_voc) /\ IdsUnique(label_voc)
       /\ pc \in Range(TrainStepOrder) => FromFile(params.train_file)
       /\ ValBatchTaken => FromFile(params.valid_file)
       /\ (pc = "predict_loop" /\ out # <<>>) =>
             \A r \in DOMAIN batch.idx :
                EncodedRow(word_voc, known_words, batch.words[r], sentences[batch.idx[r]])
       /\ error = "EncodeError" => unseen_label /\ pc = "idle" /\ "model" \notin attrs
       /\ (unseen_label /\ "label_voc" \in attrs) => error = "EncodeError" /\ pc = "idle"
       /\ (unseen_label /\ "label_voc" \in attrs) => ~label_voc.include_unknown

C11_Witness ==
    /\ error = "EncodeError"
    /\ pc = "idle"
    /\ "model" \notin attrs
    /\ params.valid_file = <<Sentence(<<"zz">>, <<"I-PER">>), Sentence(<<"b">>, <<"B-ORG">>)>>
    /\ ~VocKnows(label_voc, "B-ORG")
    /\ ~VocKnows(word_voc, "zz")
    /\ word_voc.include_unknown

\* The batch of predict's loader that holds sentence k (counted from 1), and the
\* row of that batch that holds it.
PredictBatchOf(k) ==
    Collate(PredictDataset,
            Chunked(Identity(Len(sentences)), params.batch_size)[((k - 1) \div params.batch_size) + 1])

PredictRowOf(k) == ((k - 1) % params.batch_size) + 1

\* C12: in predict, for every sentence k decoded so far and every token j of it
\* (both counted from 1), out[k][j] is the label string of the highest-scoring
\* label id at column j (counted from 0, so after the leading pad slot) of the
\* row that holds sentence k in its batch, out[k] has no entry for column 0 nor
\* for the columns after the sentence's last token, and the sentences of the
\* batch read last are the rows of the scores just computed; for any batch size,
\* so also when the sentences span several batches.
C12_PredictDecodes ==
    pc = "predict_loop" =>
        /\ \A k \in DOMAIN out :
              \E sc \in {Forward(model, PredictBatchOf(k).words, VocLen(label_voc))} :
                 /\ PredictBatchOf(k).idx[PredictRowOf(k)] = k
                 /\ DOMAIN out[k] = DOMAIN sentences[k]
                 /\ \A j \in DOMAIN sentences[k] :
                       out[k][j] = Itos(label_voc, ArgMaxVec(sc[PredictRowOf(k)][j + 1]))
        /\ out # <<>> =>
              \A r \in DOMAIN batch.idx : \A j \in DOMAIN sentences[batch.idx[r]] :
                  out[batch.idx[r]][j] = Itos(label_voc, ArgMaxVec(scores[r][j + 1]))

C12_Witness ==
    /\ pc = "predict_loop"
    /\ queue = <<>>
    /\ params.batch_size = 1
    /\ sentences = << <<"a", "zz", "b">>, <<"b">> >>
    /\ Len(out) = 2
    /\ out[1][1] # out[1][2]
    /\ out[2][1] # Itos(label_voc, ArgMaxVec(scores[1][1]))

\* len(train_loader)
TrainBatches == LoaderLen(Len(params.train_file), params.batch_size)

\* The training batches taken in the epoch that is running.
EpochOrder == SubSeq(order, i * TrainBatches + 1, Len(order))

\* s holds every element of 1..n exactly once.
IsPermutation(s, n) == Len(s) = n /\ Range(s) = 1..n

\* The phases of a call of train: epochs one after the other, the final report
\* only when exactly n_epochs epochs have run; in an epoch the training batches
\* first, holding every training sentence exactly once, then the batches of the
\* validation file in file order, each once; at the start of epoch k+1, and at
\* the final report for k = n_epochs, k training losses and k F1 values.
EpochsAndPhases ==
    /\ InTrain => i <= params.n_epochs
    /\ pc = "report" =>
          /\ i = params.n_epochs
          /\ Len(history.train_loss) = params.n_epochs
          /\ Len(history.val_f1) = params.n_epochs
          /\ Len(order) = params.n_epochs * TrainBatches
    /\ pc = "epoch_head" =>
          /\ Len(history.train_loss) = i
          /\ Len(history.val_f1) = i
          /\ Len(order) = i * TrainBatches
    /\ pc \in {"train_loop", "epoch_mid"} \cup Range(TrainStepOrder) =>
          /\ i < params.n_epochs
          /\ Len(history.train_loss) = i
          /\ Len(history.val_f1) = i
          /\ training
          /\ batch_no = Len(EpochOrder)
          /\ IsPermutation(Concat(EpochOrder \o queue), Len(params.train_file))
          /\ pc = "epoch_mid" => queue = <<>> /\ Len(EpochOrder) = TrainBatches
    /\ pc = "val_loop" =>
          /\ i < params.n_epochs
          /\ Len(history.train_loss) = i + 1
          /\ Len(history.val_f1) = i
          /\ Len(order) = (i + 1) * TrainBatches
          /\ ~training
          /\ \E m \in 0..Len(ValBatches) :
                /\ queue = SubSeq(ValBatches, m + 1, Len(ValBatches))
                /\ m > 0 => batch.idx = ValBatches[m]
                /\ stats = OnePass(SubSeq(ValBatches, 1, m), EmptyStats)

\* The steps of one epoch: its head, seven per training batch (the loop header
\* and the six statements of the body), the end of the training loop, the
\* epoch's middle, one per validation batch, the end of the validation loop.
EpochSteps == (Len(TrainStepOrder) + 1) * TrainBatches + Len(ValBatches) + 4

\* The steps a call of train that is past its setup still has to take.
StepsLeft ==
    LET after == IF i < params.n_epochs THEN (params.n_epochs - i - 1) * EpochSteps + 2 ELSE 0
        body == Len(TrainStepOrder) + 1
    IN CASE pc = "report" -> 1
         [] pc = "epoch_head" -> (params.n_epochs - i) * EpochSteps + 2
         [] pc = "train_loop" -> after + body * Len(queue) + Len(ValBatches) + 3
         [] pc \in Range(TrainStepOrder) ->
               after + body * Len(queue) + Len(ValBatches) + 3
                     + (body - (CHOOSE k \in DOMAIN TrainStepOrder : TrainStepOrder[k] = pc))
         [] pc = "epoch_mid" -> after + Len(ValBatches) + 2
         [] pc = "val_loop" -> after + Len(queue) + 1
         [] OTHER -> 0

\* C13: a call of train with n_epochs = N that is past its setup ends: each of
\* its steps leaves one step less to take, the last one being the final report,
\* reached only when exactly N epochs have run; in every epoch the whole
\* training phase (every training sentence in exactly one batch) comes before
\* the validation phase (the validation batches in file order, each once), and
\* after epoch k the history holds exactly k training losses and k F1 values.
C13_EpochsAndPhases ==
    /\ []EpochsAndPhases
    /\ [][InTrain => /\ StepsLeft' = StepsLeft - 1
                     /\ (pc' = "idle") <=> (pc = "report")
                     /\ (pc' = "idle") <=> (StepsLeft' = 0)]_vars

C13_Witness ==
    /\ pc = "report"
    /\ params.n_epochs = 2
    /\ params.batch_size = 1
    /\ Len(params.valid_file) = 2
    /\ i = 2
    /\ Len(history.train_loss) = 2
    /\ Len(history.val_f1) = 2
    /\ Len(order) = 6
    /\ SubSeq(order, 1, 3) # SubSeq(order, 4, 6)

\* The longest sentence of the batch.
WindowMaxLen == SeqMax([r \in DOMAIN win_sentences |-> Len(win_sentences[r])])

\* C14 as claimed: the parts of the window of token j of sentence r are the
\* embeddings of its left neighbour, of itself and of its right neighbour in the
\* sentence, the zero vector standing for a neighbour the sentence does not have.
C14_WindowOfSentence ==
    win_pc = "shifted" =>
        \A r \in DOMAIN win_sentences : \A j \in DOMAIN win_sentences[r] :
            /\ word_repr[r][j + 1] = emb[win_sentences[r][j]]
            /\ word_before_repr[r][j + 1] = IF j = 1 THEN ZeroVec ELSE emb[win_sentences[r][j - 1]]
            /\ word_after_repr[r][j + 1] =
                  IF j = Len(win_sentences[r]) THEN ZeroVec ELSE emb[win_sentences[r][j + 1]]

\* C14, amended: the parts of the window of token j of sentence r are the
\* embeddings at the batch columns before, at and after the token's column, the
\* zero vector standing only for a column the batch does not have; so the left
\* part of a first token is the embedding of the pad id of the leading pad slot,
\* and the right part of a last token is the embedding of the pad id when the
\* sentence is shorter than the longest of the batch and the zero vector when it
\* is the longest; the left part is the zero vector only at the pad slot itself.
C14_WindowOfColumns ==
    win_pc = "shifted" =>
        \A r \in DOMAIN win_sentences :
            /\ word_before_repr[r][1] = ZeroVec
            /\ \A j \in DOMAIN win_sentences[r] :
                  /\ word_repr[r][j + 1] = emb[win_sentences[r][j]]
                  /\ word_before_repr[r][j + 1] =
                        IF j = 1 THEN emb[PadIdx] ELSE emb[win_sentences[r][j - 1]]
                  /\ word_after_repr[r][j + 1] =
                        IF j < Len(win_sentences[r]) THEN emb[win_sentences[r][j + 1]]
                        ELSE IF Len(win_sentences[r]) < WindowMaxLen THEN emb[PadIdx]
                        ELSE ZeroVec

C14_Witness ==
    /\ win_pc = "shifted"
    /\ win_sentences = << <<UnkIdx + 1, UnkIdx>>, <<UnkIdx + 1>> >>
    /\ emb[PadIdx] # ZeroVec
    /\ emb[UnkIdx] # emb[PadIdx]
    /\ word_before_repr[2][2] = emb[PadIdx]
    /\ word_after_repr[2][2] = emb[PadIdx]
    /\ word_after_repr[1][3] = ZeroVec
    /\ word_before_repr[1][3] = emb[UnkIdx + 1]

\* C15: whatever n_epochs >= 0 is, train reaches its final report only with the
\* name stats bound by a validation phase, and no call of train ends with the
\* error of reading an unbound name.
C15_StatsBoundAtReport ==
    /\ pc = "report" => stats_bound
    /\ error # "UnboundLocalError"

====
